---- MODULE Spec2Model ----
(***************************************************************************)
(* Model of hummingbird/ml/_executor.py: the Executor that resolves the    *)
(* declared input/output names of a converted pipeline against the         *)
(* operators' variables (constructor) and then runs the operators over a   *)
(* per-call variable map (forward).                                        *)
(***************************************************************************)
EXTENDS Integers, Sequences, FiniteSets, TLC

VARIABLES
    phase,                     \* "new" | "ready" | "ctor_failed"
    operators,                 \* constructor argument: topology operators
    input_names,               \* constructor argument: declared input names
    output_names,              \* constructor argument: declared output names
    _input_names,              \* self._input_names
    _output_names,             \* self._output_names
    _operators,                \* self._operators
    max_string_length,         \* self.max_string_length (0 models None)
    check_dataframe_to_array,  \* self.check_dataframe_to_array
    DataFrame,                 \* module global: TRUE iff pandas is installed
    device,                    \* get_device(self)
    pc,                        \* per call: position inside forward
    args,                      \* per call: the positional arguments as passed (*inputs)
    inputs,                    \* per call: the local `inputs` after the split of lines 80-87
    idx,                       \* per call: loop index of the running loop
    variable_map,              \* per call: the local `variable_map`
    invoked,                   \* per call: operators whose transform was invoked, in order
    result,                    \* per call: the value returned to the caller
    error                      \* per call: the exception that ended the call

executor == <<phase, operators, input_names, output_names, _input_names,
              _output_names, _operators, max_string_length,
              check_dataframe_to_array, DataFrame, device>>
calls == <<pc, args, inputs, idx, variable_map, invoked, result, error>>
vars == <<executor, calls>>

----------------------------------------------------------------------------
(* Dictionaries *)

EmptyMap == [x \in {} |-> x]

Put(m, k, v) == [x \in (DOMAIN m) \cup {k} |-> IF x = k THEN v ELSE m[x]]

RECURSIVE Reversed(_)
Reversed(s) == IF s = <<>> THEN <<>> ELSE Append(Reversed(Tail(s)), Head(s))

----------------------------------------------------------------------------
(* Executor.__init__._fix_var_naming *)

Variable(raw, full) == [raw_name |-> raw, full_name |-> full]

\* iter = op.inputs if mod == "input" else op.outputs
Iter(op, mod) == IF mod = "input" THEN op.inputs ELSE op.outputs

NotInMapAlways(name, map) == TRUE
\* the `name not in map` half of the guard of line 49
NotInMap(name, map) == name \notin DOMAIN map

\* for name in names: if i.raw_name == name and name not in map: map[...] = ...
RECURSIVE ScanNames(_, _, _, _)
ScanNames(i, names, j, map) ==
    IF j > Len(names) THEN map
    ELSE ScanNames(i, names, j + 1,
            IF i.raw_name = names[j] /\ NotInMap(names[j], map)
            THEN Put(map, i.raw_name, i.full_name)
            ELSE map)

\* for i in iter: ...
RECURSIVE ScanIter(_, _, _, _)
ScanIter(iter, names, p, map) ==
    IF p > Len(iter) THEN map
    ELSE ScanIter(iter, names, p + 1, ScanNames(iter[p], names, 1, map))

\* if len(map) == len(names): break
BreakScan(map, names) == Cardinality(DOMAIN map) = Len(names)

\* for op in operators: ... (the loop of lines 42-52, from operator k on)
RECURSIVE ScanOperators(_, _, _, _, _)
ScanOperators(ops, names, mod, k, map) ==
    IF k > Len(ops) THEN map
    ELSE LET m == ScanIter(Iter(ops[k], mod), names, 1, map)
         IN  IF BreakScan(m, names) THEN m
             ELSE ScanOperators(ops, names, mod, k + 1, m)

KeyError == [ok |-> FALSE, names |-> <<>>]

NewNamesOrDeclared(map, names) ==
    [ok |-> TRUE,
     names |-> [j \in 1..Len(names) |->
                   IF names[j] \in DOMAIN map THEN map[names[j]] ELSE names[j]]]
\* for name in names: new_names.append(map[name])   (KeyError on a missing key)
NewNames(map, names) ==
    IF \E j \in 1..Len(names) : names[j] \notin DOMAIN map
    THEN KeyError
    ELSE [ok |-> TRUE, names |-> [j \in 1..Len(names) |-> map[names[j]]]]

_fix_var_naming(ops, names, mod) ==
    LET map == ScanOperators(ops, names, mod, 1, EmptyMap)
    IN  IF map = EmptyMap THEN [ok |-> TRUE, names |-> names]
        ELSE NewNames(map, names)

----------------------------------------------------------------------------
(* Values passed to and bound by forward *)

Billion == 1000000000

\* dtype.kind of a numpy dtype
Kind(dtype) ==
    CASE dtype \in {"float64", "float32"} -> "f"
      [] dtype \in {"int64", "int32"} -> "i"
      [] dtype = "str" -> "U"
      [] dtype = "datetime64" -> "M"

\* constants.SUPPORTED_STRING_TYPES
SUPPORTED_STRING_TYPES == {"U", "S"}

\* constants.MAX_STRING_LENGTH, the key looked up in extra_config
MAX_STRING_LENGTH == "max_string_length"

\* A numpy array.  `id` names its (opaque) content.  A datetime array holds
\* the instant num * 10^9 + den nanoseconds after 1970-01-01T00:00:00 (whole
\* seconds and 0 <= den < 10^9 nanoseconds, an int64 split to stay within the
\* 32-bit integers of TLC); a numeric array holds the number num/den.  `enc` > 0
\* is the width of a from_strings_to_ints encoding.
NdArray(dtype, shape, id, num, den, enc) ==
    [type |-> "ndarray", dtype |-> dtype, shape |-> shape, id |-> id,
     num |-> num, den |-> den, enc |-> enc]

Tensor(dtype, shape, id, num, den, enc, dev) ==
    [type |-> "tensor", dtype |-> dtype, shape |-> shape, id |-> id,
     num |-> num, den |-> den, enc |-> enc, device |-> dev]

\* A python list; np.array(list) is the array `array`
PyList(array) == [type |-> "list", array |-> array]

\* A pandas column: to_numpy() gives a flat array of its dtype
Series(dtype, id, num, den) == [dtype |-> dtype, id |-> id, num |-> num, den |-> den]

PandasDataFrame(cols) == [type |-> "dataframe", columns |-> cols]

\* Anything else (a python scalar, None, ...)
Other == [type |-> "other"]

RECURSIVE GCD(_, _)
GCD(a, b) == IF b = 0 THEN a ELSE GCD(b, a % b)

\* ndarray / d: numpy's true division of the int64 array of sec * d + nano
\* nanoseconds by the scalar d, an array of float64 holding the quotient
\* (sec * d + nano) / d as a fraction in lowest terms
TrueDivide(a, sec, nano, d) ==
    LET g == GCD(nano, d)
    IN  NdArray("float64", a.shape, a.id, sec * (d \div g) + nano \div g, d \div g, a.enc)

\* (input_ - np.datetime64("1970-01-01T00:00:00.000000000")).astype(np.int64) / 1000000000
DatetimeToSeconds(a) == TrueDivide(a, a.num - 0, a.den, Billion)

\* from_strings_to_ints(input_, max_string_length): a fixed-width int32 encoding
from_strings_to_ints(a, width) ==
    NdArray("int32", a.shape, a.id, a.num, a.den, width)

\* torch.from_numpy(input_)
from_numpy(a) == Tensor(a.dtype, a.shape, a.id, a.num, a.den, a.enc, "cpu")

\* input_.float()
Float(t) == [t EXCEPT !.dtype = "float32"]

\* input_.to(device)
To(t, dev) == [t EXCEPT !.device = dev]

Raise(type, where) == [type |-> type, where |-> where, names |-> <<>>]
NoError == Raise("none", "")

\* Lines 94-112: the conversion of one positional input.
\* [ok |-> TRUE, value |-> tensor] or [ok |-> FALSE, error |-> exception]
ConvertArray(a) ==
    IF Kind(a.dtype) \in SUPPORTED_STRING_TYPES
    THEN IF max_string_length = 0
         THEN [ok |-> FALSE, error |-> Raise("AssertionError", "max_string_length")]
         ELSE [ok |-> TRUE, value |-> from_numpy(from_strings_to_ints(a, max_string_length))]
    ELSE IF Kind(a.dtype) = "M"
    THEN [ok |-> TRUE, value |-> from_numpy(DatetimeToSeconds(a))]
    ELSE [ok |-> TRUE, value |-> from_numpy(a)]

Downcast(t) == IF t.dtype = "float64" THEN Float(t) ELSE t

Place(t) == IF device # "none" /\ device # "cpu" THEN To(t, device) ELSE t

ConvertInput(input_) ==
    LET a == IF input_.type = "list" THEN input_.array ELSE input_
        r == IF a.type = "ndarray" THEN ConvertArray(a)
             ELSE IF a.type # "tensor"
             THEN [ok |-> FALSE, error |-> Raise("RuntimeError", "input type")]
             ELSE [ok |-> TRUE, value |-> a]
    IN  IF r.ok THEN [ok |-> TRUE, value |-> Place(Downcast(r.value))] ELSE r

----------------------------------------------------------------------------
(* The operators and their transforms *)

\* A topology operator: its variables carry a raw and a full name.  `nret`
\* describes the opaque transform: 0 for a single value, k > 0 for a k-tuple.
Operator(name, ins, outs, nret) ==
    [full_name |-> name, inputs |-> ins, outputs |-> outs, nret |-> nret]

FullNames(variables) == [p \in 1..Len(variables) |-> variables[p].full_name]

\* operator_map[operator.full_name]: the executable operator, whose inputs
\* and outputs are the full names of the topology operator's variables
PhysicalOperator(op) ==
    [name |-> op.full_name, inputs |-> FullNames(op.inputs),
     outputs |-> FullNames(op.outputs), nret |-> op.nret]

OutValue(op, i, argv) == [type |-> "out", op |-> op.name, i |-> i, args |-> argv]

\* operator(*args): an opaque, deterministic function of its arguments
Transform(op, argv) ==
    IF op.nret = 0 THEN OutValue(op, 0, argv)
    ELSE [type |-> "tuple", items |-> [i \in 1..op.nret |-> OutValue(op, i, argv)]]

NoValue == [type |-> "none"]

----------------------------------------------------------------------------
(* Executor.forward *)

\* the assert of lines 71-78: "pass" or the exception it ends in
ArityAssert(a) ==
    IF Len(_input_names) = Len(a) THEN "pass"
    ELSE IF ~DataFrame THEN "AssertionError"
    ELSE IF Len(a) = 0 THEN "IndexError"
    ELSE IF a[1].type # "dataframe" THEN "AssertionError"
    ELSE IF check_dataframe_to_array = "unset" THEN "AttributeError"
    ELSE IF check_dataframe_to_array = "true" THEN "AssertionError"
    ELSE IF Len(_input_names) = Len(a[1].columns) THEN "pass"
    ELSE "AssertionError"

\* lines 82-86: one array per column, each reshaped to (-1, 1)
SplitColumns(df) ==
    [p \in 1..Len(df.columns) |->
        LET col == df.columns[p]
        IN  NdArray(col.dtype, "col", col.id, col.num, col.den, 0)]

\* the condition of line 80: "yes", "no" or the exception it ends in
IsDataFrameCall(a) ==
    IF ~DataFrame THEN "no"
    ELSE IF Len(a) = 0 THEN "IndexError"
    ELSE IF a[1].type = "dataframe" THEN "yes" ELSE "no"

\* where the call stands once i inputs are bound / k operators have run
PcAfterOperator(k) == IF k < Len(_operators) THEN "run" ELSE "return"
PcAfterBinding(i) == IF i < Len(_input_names) THEN "bind" ELSE PcAfterOperator(0)

\* an exception leaves forward: nothing is returned
Fail(c, e) ==
    /\ pc' = [pc EXCEPT ![c] = "failed"]
    /\ error' = [error EXCEPT ![c] = e]

\* lines 67-89: the call, the assert, the split, the fresh variable_map
Enter(c, a) ==
    /\ phase = "ready"
    /\ pc[c] = "idle"
    /\ args' = [args EXCEPT ![c] = a]
    /\ idx' = [idx EXCEPT ![c] = 1]
    /\ variable_map' = [variable_map EXCEPT ![c] = EmptyMap]
    /\ invoked' = [invoked EXCEPT ![c] = <<>>]
    /\ result' = [result EXCEPT ![c] = NoValue]
    /\ IF ArityAssert(a) # "pass"
       THEN /\ Fail(c, [type |-> ArityAssert(a), where |-> "arity",
                        names |-> IF ArityAssert(a) = "AssertionError"
                                  THEN _input_names ELSE <<>>])
            /\ inputs' = [inputs EXCEPT ![c] = a]
       ELSE IF IsDataFrameCall(a) = "IndexError"
       THEN /\ Fail(c, Raise("IndexError", "split"))
            /\ inputs' = [inputs EXCEPT ![c] = a]
       ELSE /\ pc' = [pc EXCEPT ![c] = PcAfterBinding(0)]
            /\ error' = [error EXCEPT ![c] = NoError]
            /\ inputs' = [inputs EXCEPT ![c] =
                            IF IsDataFrameCall(a) = "yes" THEN SplitColumns(a[1]) ELSE a]
    /\ UNCHANGED executor

TableOfShared(c) == 1
\* variable_map = {} (line 88) is local to the call: call c uses its own table
TableOf(c) == c

\* lines 92-113: one iteration of the loop over self._input_names
BindInput(c) ==
    /\ pc[c] = "bind"
    /\ IF idx[c] > Len(inputs[c])
       THEN /\ Fail(c, Raise("IndexError", "bind"))
            /\ UNCHANGED <<idx, variable_map>>
       ELSE LET r == ConvertInput(inputs[c][idx[c]])
            IN  IF r.ok
                THEN /\ variable_map' = [variable_map EXCEPT ![TableOf(c)] =
                                           Put(@, _input_names[idx[c]], r.value)]
                     /\ pc' = [pc EXCEPT ![c] = PcAfterBinding(idx[c])]
                     /\ idx' = [idx EXCEPT ![c] =
                                  IF PcAfterBinding(idx[c]) = "bind" THEN @ + 1 ELSE 1]
                     /\ UNCHANGED error
                ELSE /\ Fail(c, r.error)
                     /\ UNCHANGED <<idx, variable_map>>
    /\ UNCHANGED <<executor, args, inputs, invoked, result>>

\* for i, output_name in enumerate(operator.outputs): variable_map[...] = outputs[i]
\* (stops at the first i the returned tuple does not have)
RECURSIVE BindOutputs(_, _, _, _)
BindOutputs(map, names, outs, p) ==
    IF p > Len(names) \/ p > Len(outs.items) THEN map
    ELSE BindOutputs(Put(map, names[p], outs.items[p]), names, outs, p + 1)

SkipOperator(k) == k + 2
\* `for operator in self._operators` moves to the next operator
NextOperator(k) == k + 1

\* lines 116-123: one iteration of the loop over self._operators
RunOperator(c) ==
    /\ pc[c] = "run"
    /\ LET op == _operators[idx[c]]
           map == variable_map[TableOf(c)]
       IN  IF \E p \in 1..Len(op.inputs) : op.inputs[p] \notin DOMAIN map
           THEN /\ Fail(c, Raise("KeyError", "operator input"))
                /\ UNCHANGED <<idx, variable_map, invoked>>
           ELSE LET outs == Transform(op, [p \in 1..Len(op.inputs) |-> map[op.inputs[p]]])
                IN  /\ invoked' = [invoked EXCEPT ![c] = Append(@, idx[c])]
                    /\ IF Len(op.outputs) = 1
                       THEN /\ variable_map' = [variable_map EXCEPT ![TableOf(c)] =
                                                  Put(@, op.outputs[1], outs)]
                            /\ pc' = [pc EXCEPT ![c] = PcAfterOperator(NextOperator(idx[c]) - 1)]
                            /\ idx' = [idx EXCEPT ![c] = NextOperator(@)]
                            /\ UNCHANGED error
                       ELSE /\ variable_map' = [variable_map EXCEPT ![TableOf(c)] =
                                                  BindOutputs(@, op.outputs, outs, 1)]
                            /\ IF Len(outs.items) < Len(op.outputs)
                               THEN /\ Fail(c, Raise("IndexError", "operator output"))
                                    /\ UNCHANGED idx
                               ELSE /\ pc' = [pc EXCEPT ![c] =
                                                PcAfterOperator(NextOperator(idx[c]) - 1)]
                                    /\ idx' = [idx EXCEPT ![c] = NextOperator(@)]
                                    /\ UNCHANGED error
    /\ UNCHANGED <<executor, args, inputs, result>>

AssembleReversed(map) ==
    IF \E j \in 1..Len(_output_names) : _output_names[j] \notin DOMAIN map
    THEN [ok |-> FALSE, value |-> NoValue]
    ELSE IF Len(_output_names) = 1
    THEN [ok |-> TRUE, value |-> map[_output_names[1]]]
    ELSE [ok |-> TRUE,
          value |-> [type |-> "tuple",
                     items |-> [j \in 1..Len(_output_names) |->
                                  map[_output_names[Len(_output_names) + 1 - j]]]]]
RECURSIVE BoundValues(_, _, _)
BoundValues(map, names, j) ==
    IF j > Len(names) THEN <<>>
    ELSE (IF names[j] \in DOMAIN map THEN <<map[names[j]]>> ELSE <<>>)
         \o BoundValues(map, names, j + 1)
AssemblePresent(map) ==
    [ok |-> TRUE,
     value |-> [type |-> "tuple", items |-> BoundValues(map, _output_names, 1)]]
\* lines 126-129: the single bound value, or the tuple of the bound values in
\* the order of self._output_names; a missing name is a KeyError
Assemble(map) ==
    IF \E j \in 1..Len(_output_names) : _output_names[j] \notin DOMAIN map
    THEN [ok |-> FALSE, value |-> NoValue]
    ELSE IF Len(_output_names) = 1
    THEN [ok |-> TRUE, value |-> map[_output_names[1]]]
    ELSE [ok |-> TRUE,
          value |-> [type |-> "tuple",
                     items |-> [j \in 1..Len(_output_names) |-> map[_output_names[j]]]]]

\* lines 126-129: prepare and return the output
ReturnOutput(c) ==
    /\ pc[c] = "return"
    /\ LET r == Assemble(variable_map[TableOf(c)])
       IN  /\ result' = [result EXCEPT ![c] = r.value]
           /\ IF r.ok
              THEN /\ pc' = [pc EXCEPT ![c] = "done"]
                   /\ UNCHANGED error
              ELSE Fail(c, Raise("KeyError", "output"))
    /\ UNCHANGED <<executor, args, inputs, idx, variable_map, invoked>>

\* the call is over: its frame (inputs, variable_map) is discarded
Discard(c) ==
    /\ pc[c] \in {"done", "failed"}
    /\ pc' = [pc EXCEPT ![c] = "idle"]
    /\ args' = [args EXCEPT ![c] = <<>>]
    /\ inputs' = [inputs EXCEPT ![c] = <<>>]
    /\ idx' = [idx EXCEPT ![c] = 1]
    /\ variable_map' = [variable_map EXCEPT ![c] = EmptyMap]
    /\ invoked' = [invoked EXCEPT ![c] = <<>>]
    /\ result' = [result EXCEPT ![c] = NoValue]
    /\ error' = [error EXCEPT ![c] = NoError]
    /\ UNCHANGED executor

----------------------------------------------------------------------------
(* Executor.__init__ *)

\* A converted pipeline as handed to the constructor; `device` is what
\* get_device finds for the executor built from it.
Graph(ops, ins, outs, config, dev) ==
    [operators |-> ops, input_names |-> ins, output_names |-> outs,
     extra_config |-> config, device |-> dev]

\* lines 24-65
Construct(g) ==
    /\ phase = "new"
    /\ LET rin == _fix_var_naming(g.operators, g.input_names, "input")
           rout == _fix_var_naming(Reversed(g.operators), g.output_names, "output")
       IN  /\ phase' = IF rin.ok /\ rout.ok THEN "ready" ELSE "ctor_failed"
           /\ _input_names' = rin.names
           /\ _output_names' = IF rin.ok THEN rout.names ELSE <<>>
           /\ _operators' = IF rin.ok /\ rout.ok
                            THEN [k \in 1..Len(g.operators) |-> PhysicalOperator(g.operators[k])]
                            ELSE <<>>
           /\ max_string_length' =
                 IF rin.ok /\ rout.ok /\ MAX_STRING_LENGTH \in DOMAIN g.extra_config
                 THEN g.extra_config[MAX_STRING_LENGTH] ELSE 0
    /\ operators' = g.operators
    /\ input_names' = g.input_names
    /\ output_names' = g.output_names
    /\ device' = g.device
    /\ UNCHANGED <<check_dataframe_to_array, DataFrame, calls>>

----------------------------------------------------------------------------
(* The pipelines and the arguments explored *)

MaxExtra == 1     \* positional arguments tried beyond the number of input names
MaxCols == 3      \* columns of the widest DataFrame tried
MaxCalls == 2     \* concurrent forward calls
MaxOps == 2       \* operators of the generated pipelines of the resolver check

Calls == 1..MaxCalls

SeqsUpTo(S, n) == UNION {[1..k -> S] : k \in 0..n}

V(name) == Variable(name, name)

Graphs == {
    \* y = f(x), names not altered by the graph builder
    Graph(<<Operator("f", <<V("x")>>, <<V("y")>>, 0)>>,
          <<"x">>, <<"y">>, EmptyMap, "none"),
    \* a renamed two-stage pipeline whose stages both produce raw name "variable"
    Graph(<<Operator("scaler", <<Variable("input", "input_0")>>,
                               <<Variable("variable", "variable1")>>, 0),
            Operator("model", <<Variable("variable", "variable1")>>,
                              <<Variable("variable", "variable2")>>, 0)>>,
          <<"input">>, <<"variable">>, (MAX_STRING_LENGTH :> 4), "cuda"),
    \* two inputs, one operator with two outputs, outputs declared as [o2, o1]
    Graph(<<Operator("f", <<V("a"), V("b")>>, <<V("o1"), V("o2")>>, 2)>>,
          <<"a", "b">>, <<"o2", "o1">>, EmptyMap, "cpu"),
    \* o1 is produced before o2, outputs declared as [o2, o1]
    Graph(<<Operator("f", <<V("x")>>, <<V("o1")>>, 0),
            Operator("g", <<V("x")>>, <<V("o2")>>, 0)>>,
          <<"x">>, <<"o2", "o1">>, EmptyMap, "cpu"),
    \* two independent operators, only the first one's output is declared
    Graph(<<Operator("f", <<V("x")>>, <<V("o1")>>, 0),
            Operator("g", <<V("x")>>, <<V("o2")>>, 0)>>,
          <<"x">>, <<"o1">>, EmptyMap, "cpu"),
    \* the second operator declares two outputs and returns one value
    Graph(<<Operator("h", <<V("x")>>, <<V("u")>>, 0),
            Operator("f", <<V("u")>>, <<V("o1"), V("o2")>>, 1),
            Operator("g", <<V("o1")>>, <<V("y")>>, 0)>>,
          <<"x">>, <<"y">>, EmptyMap, "cpu"),
    \* not in topological order: g reads t before f has produced it
    Graph(<<Operator("h", <<V("x")>>, <<V("u")>>, 0),
            Operator("g", <<V("t")>>, <<V("y")>>, 0),
            Operator("f", <<V("u")>>, <<V("t")>>, 0)>>,
          <<"x">>, <<"y">>, EmptyMap, "cpu"),
    \* no declared output matches a raw name: [y, z] are used as they are,
    \* and no operator produces z
    Graph(<<Operator("f", <<V("x")>>, <<Variable("variable", "y")>>, 0)>>,
          <<"x">>, <<"y", "z">>, EmptyMap, "cpu"),
    \* declared output z matches nothing while y matches
    Graph(<<Operator("f", <<V("x")>>, <<V("y")>>, 0)>>,
          <<"x">>, <<"y", "z">>, EmptyMap, "cpu"),
    \* a pipeline without inputs
    Graph(<<Operator("c", <<>>, <<V("y")>>, 0)>>,
          <<>>, <<"y">>, EmptyMap, "cpu"),
    \* a pipeline without operators
    Graph(<<>>, <<"x">>, <<"x">>, EmptyMap, "cpu") }

GenVariables == {Variable("a", "a1"), Variable("a", "a2"), Variable("b", "b1")}
\* declared lists and operators of at most two names (variables)
GenNames == SeqsUpTo({"a", "b", "c"}, 2)
GenOperators == {Operator("op", u, u, 0) : u \in SeqsUpTo(GenVariables, 2)}
\* a small pipeline with the declared list `names` as its inputs or its outputs
GenGraph(ops, names, mod) ==
    IF mod = "input" THEN Graph(ops, names, <<>>, EmptyMap, "cpu")
    ELSE Graph(ops, <<>>, names, EmptyMap, "cpu")

\* <<whole seconds, nanoseconds>> since the epoch: the epoch, epoch + 90 s,
\* epoch + 1.5 s, epoch - 0.5 s
Instants == {<<0, 0>>, <<90, 0>>, <<1, Billion \div 2>>, <<0 - 1, Billion \div 2>>}

Arrays ==
    {NdArray("float64", "flat", "p", 0, 1, 0), NdArray("str", "flat", "s", 0, 1, 0)}
    \cup {NdArray("datetime64", "flat", "t", n[1], n[2], 0) : n \in Instants}

Columns(k) ==
    [p \in 1..k |-> IF p = 2 THEN Series("datetime64", "t", 90, 0)
                    ELSE Series("float64", "p", 0, 1)]

Frames == {PandasDataFrame(Columns(k)) : k \in 1..MaxCols}

ArgValues ==
    Arrays \cup {PyList(NdArray("float64", "flat", "l", 0, 1, 0)),
                 Tensor("float64", "flat", "u", 0, 1, 0, "cpu"), Other}
    \cup (IF DataFrame THEN Frames ELSE {})

\* the arguments beyond the input names are never looked at
ExtraValues == {NdArray("float64", "flat", "e", 0, 1, 0), Other}


ConcValues == {NdArray("float64", "flat", "p", 0, 1, 0),
               NdArray("float32", "flat", "q", 0, 1, 0), Other}

----------------------------------------------------------------------------
(* Specifications *)

InitCalls ==
    /\ pc = [c \in Calls |-> "idle"]
    /\ args = [c \in Calls |-> <<>>]
    /\ inputs = [c \in Calls |-> <<>>]
    /\ idx = [c \in Calls |-> 1]
    /\ variable_map = [c \in Calls |-> EmptyMap]
    /\ invoked = [c \in Calls |-> <<>>]
    /\ result = [c \in Calls |-> NoValue]
    /\ error = [c \in Calls |-> NoError]

InitExecutor ==
    /\ phase = "new"
    /\ operators = <<>>
    /\ input_names = <<>>
    /\ output_names = <<>>
    /\ _input_names = <<>>
    /\ _output_names = <<>>
    /\ _operators = <<>>
    /\ max_string_length = 0
    /\ device = "none"

\* pandas is installed or not; check_dataframe_to_array is not assigned by
\* the class, so a read of it finds it unset or set by other code
Init ==
    /\ InitExecutor
    /\ InitCalls
    /\ DataFrame \in BOOLEAN
    /\ check_dataframe_to_array \in {"unset", "false", "true"}

\* Executor(...) on one of the pipelines
New == phase = "new" /\ \E g \in Graphs : Construct(g)

\* Executor(...) on every small pipeline, with every declared list as its
\* inputs or as its outputs
NewGenerated ==
    /\ phase = "new"
    /\ \E k \in 0..MaxOps : \E ops \in [1..k -> GenOperators] :
          \E names \in GenNames : \E mod \in {"input", "output"} :
             Construct(GenGraph(ops, names, mod))

\* executor(*a) by caller c: up to as many arguments as input names, of any
\* value, or as many followed by up to MaxExtra more
Call(c) ==
    /\ phase = "ready"
    /\ pc[c] = "idle"
    /\ \/ \E n \in 0..Len(_input_names) : \E a \in [1..n -> ArgValues] : Enter(c, a)
       \/ \E a \in [1..Len(_input_names) -> ArgValues] :
             \E k \in 1..MaxExtra : \E e \in [1..k -> ExtraValues] : Enter(c, a \o e)

\* executor(*a) by caller c, with as many arguments as input names
CallExact(c) ==
    /\ phase = "ready"
    /\ pc[c] = "idle"
    /\ \E a \in [1..Len(_input_names) -> ConcValues] : Enter(c, a)

Step(c) == BindInput(c) \/ RunOperator(c) \/ ReturnOutput(c) \/ Discard(c)

\* one caller at a time, any arguments
Next ==
    \/ New
    \/ Call(1)
    \/ Step(1)

Spec == Init /\ [][Next]_vars

\* several callers at once
InitConc ==
    /\ InitExecutor
    /\ InitCalls
    /\ DataFrame = TRUE
    /\ check_dataframe_to_array = "false"

NextConc ==
    \/ New
    \/ \E c \in Calls : CallExact(c)
    \/ \E c \in Calls : Step(c)

SpecConc == InitConc /\ [][NextConc]_vars

\* the constructor alone, over all small pipelines
NextResolve == NewGenerated

SpecResolve == InitConc /\ [][NextResolve]_vars

----------------------------------------------------------------------------
(* Properties of the constructor *)

\* the positions (operator, variable) of the side `mod` whose raw name is n
Occurrences(ops, n, mod) ==
    UNION {{<<k, p>> : p \in {q \in 1..Len(Iter(ops[k], mod)) :
                                   Iter(ops[k], mod)[q].raw_name = n}} :
           k \in 1..Len(ops)}

Matches(ops, n, mod) == Occurrences(ops, n, mod) # {}

NoneMatched(ops, names, mod) == \A j \in 1..Len(names) : ~Matches(ops, names[j], mod)
AllMatched(ops, names, mod) == \A j \in 1..Len(names) : Matches(ops, names[j], mod)
PartlyMatched(ops, names, mod) ==
    /\ \E j \in 1..Len(names) : Matches(ops, names[j], mod)
    /\ \E j \in 1..Len(names) : ~Matches(ops, names[j], mod)

\* every resolved name is the full name of a variable with the declared raw name
ResolvedTo(ops, names, mod, resolved) ==
    /\ Len(resolved) = Len(names)
    /\ \A j \in 1..Len(names) :
          \E kp \in Occurrences(ops, names[j], mod) :
             Iter(ops[kp[1]], mod)[kp[2]].full_name = resolved[j]

ResolvedList(ops, names, mod, resolved) ==
    /\ NoneMatched(ops, names, mod) => resolved = names
    /\ AllMatched(ops, names, mod) => ResolvedTo(ops, names, mod, resolved)

\* C7: construction fails (missing key) exactly when, for the inputs or for
\* the outputs, some declared name matches a raw name and another declared name
\* matches none; a list of which no name matches is used as declared, and a
\* list of which every name matches gives one full name per declared name, in
\* the declared order.
C7_ConstructionFailsIffPartlyMatched ==
    phase # "new" =>
       /\ phase = "ctor_failed" <=>
             \/ PartlyMatched(operators, input_names, "input")
             \/ PartlyMatched(operators, output_names, "output")
       /\ phase = "ready" =>
             /\ ResolvedList(operators, input_names, "input", _input_names)
             /\ ResolvedList(operators, output_names, "output", _output_names)

C7_Witness ==
    /\ phase = "ctor_failed"
    /\ ~PartlyMatched(operators, input_names, "input")
    /\ PartlyMatched(operators, output_names, "output")
    /\ Len(output_names) = 2

\* the full name of the first variable of operator k's side with raw name n
FirstIn(ops, k, n, mod) ==
    LET ps == {kp[2] : kp \in {q \in Occurrences(ops, n, mod) : q[1] = k}}
        p == CHOOSE x \in ps : \A y \in ps : x <= y
    IN  Iter(ops[k], mod)[p].full_name

FirstOperator(ops, n, mod) ==
    LET ks == {kp[1] : kp \in Occurrences(ops, n, mod)}
    IN  CHOOSE x \in ks : \A y \in ks : x <= y

LastOperator(ops, n, mod) ==
    LET ks == {kp[1] : kp \in Occurrences(ops, n, mod)}
    IN  CHOOSE x \in ks : \A y \in ks : x >= y

\* the scan of lines 42-52 without the break of lines 51-52
RECURSIVE ScanWhole(_, _, _, _, _)
ScanWhole(ops, names, mod, k, map) ==
    IF k > Len(ops) THEN map
    ELSE ScanWhole(ops, names, mod, k + 1, ScanIter(Iter(ops[k], mod), names, 1, map))

WholeScanNames(ops, names, mod) ==
    LET map == ScanWhole(ops, names, mod, 1, EmptyMap)
    IN  IF map = EmptyMap THEN names
        ELSE [j \in 1..Len(names) |-> IF names[j] \in DOMAIN map THEN map[names[j]] ELSE ""]

\* C10: a declared output name resolves to the full name of the matching
\* output of the last operator (in sequence order) that produces the raw name,
\* a declared input name to that of the matching input of the first operator
\* that consumes it, and the early stop of the scan gives what a scan of the
\* whole sequence gives.
C10_ScanDirection ==
    phase = "ready" =>
       /\ \A j \in 1..Len(output_names) :
             Matches(operators, output_names[j], "output") =>
                _output_names[j] =
                   FirstIn(operators, LastOperator(operators, output_names[j], "output"),
                           output_names[j], "output")
       /\ \A j \in 1..Len(input_names) :
             Matches(operators, input_names[j], "input") =>
                _input_names[j] =
                   FirstIn(operators, FirstOperator(operators, input_names[j], "input"),
                           input_names[j], "input")
       /\ _input_names = WholeScanNames(operators, input_names, "input")
       /\ _output_names = WholeScanNames(Reversed(operators), output_names, "output")

\* two operators produce raw name "a" under different full names, and "a" is
\* a declared output
C10_Witness ==
    /\ phase = "ready"
    /\ Len(operators) = 2
    /\ output_names = <<"b", "a">>
    /\ _output_names = <<"b1", "a2">>
    /\ operators[1].outputs = <<Variable("a", "a1"), Variable("b", "b1")>>
    /\ operators[2].outputs = <<Variable("a", "a2")>>

----------------------------------------------------------------------------
(* Properties of forward *)

N == Len(_input_names)

Started(c) == pc[c] # "idle"

\* the inputs of call c are all bound and no operator has touched the table
Seeded(c) == pc[c] \in {"run", "return"} /\ invoked[c] = <<>>

\* the arity-mismatch error, whose message includes self._input_names
ArityError == [type |-> "AssertionError", where |-> "arity", names |-> _input_names]

\* a is a single tabular container whose column count matches
SoleFrame(a) ==
    Len(a) = 1 /\ a[1].type = "dataframe" /\ Len(a[1].columns) = N

\* C4: in every call that returns a result each operator of the stored
\* sequence was invoked exactly once, in the stored order, operator k only
\* after operators before it completed and bound their outputs, none skipped.
C4_ExactlyOnceInOrder ==
    \A c \in Calls :
       /\ invoked[c] = [k \in 1..Len(invoked[c]) |-> k]
       /\ pc[c] = "run" => Len(invoked[c]) = idx[c] - 1
       /\ pc[c] \in {"run", "return", "done"} =>
             \A k \in 1..Len(invoked[c]) : \A p \in 1..Len(_operators[k].outputs) :
                _operators[k].outputs[p] \in DOMAIN variable_map[c]
       /\ pc[c] = "done" => Len(invoked[c]) = Len(_operators)

C4_Witness ==
    /\ pc[1] = "done"
    /\ Len(_operators) = 2
    /\ invoked[1] = <<1, 2>>
    /\ _output_names = <<"o1">>

\* value v was produced under the name `name`: by an operator that declares
\* `name` at the position the value was returned at, or as an input
ProducedAs(v, name) ==
    \/ /\ v.type = "out"
       /\ \E k \in 1..Len(_operators) :
             /\ _operators[k].name = v.op
             /\ IF v.i = 0 THEN _operators[k].outputs = <<name>>
                ELSE v.i <= Len(_operators[k].outputs) /\ _operators[k].outputs[v.i] = name
    \/ /\ v.type = "tensor"
       /\ \E i \in 1..N : _input_names[i] = name

\* C5: forward returns the single bound value when one output name was
\* resolved, and otherwise the tuple whose element j is the value bound to the
\* j-th resolved output name, whatever the order of production.
C5_OutputOrder ==
    \A c \in Calls :
       pc[c] = "done" =>
          IF Len(_output_names) = 1
          THEN /\ result[c] = variable_map[c][_output_names[1]]
               /\ ProducedAs(result[c], _output_names[1])
          ELSE /\ result[c].type = "tuple"
               /\ Len(result[c].items) = Len(_output_names)
               /\ \A j \in 1..Len(_output_names) :
                     /\ result[c].items[j] = variable_map[c][_output_names[j]]
                     /\ ProducedAs(result[c].items[j], _output_names[j])

\* o1 is produced before o2 and the declared outputs are [o2, o1]
C5_Witness ==
    /\ pc[1] = "done"
    /\ _output_names = <<"o2", "o1">>
    /\ Len(_operators) = 2
    /\ result[1].items[1].op = "g"
    /\ result[1].items[2].op = "f"

----------------------------------------------------------------------------
(* forward run by one caller alone, from the arguments to the outcome *)

Outcome(value, e) == [value |-> value, error |-> e]

RECURSIVE AloneOutputs(_, _)
AloneOutputs(map, k) ==
    IF k > Len(_operators) THEN
        LET r == Assemble(map)
        IN  IF r.ok THEN Outcome(r.value, NoError)
            ELSE Outcome(NoValue, Raise("KeyError", "output"))
    ELSE LET op == _operators[k]
         IN  IF \E p \in 1..Len(op.inputs) : op.inputs[p] \notin DOMAIN map
             THEN Outcome(NoValue, Raise("KeyError", "operator input"))
             ELSE LET outs == Transform(op, [p \in 1..Len(op.inputs) |-> map[op.inputs[p]]])
                  IN  IF Len(op.outputs) = 1
                      THEN AloneOutputs(Put(map, op.outputs[1], outs), k + 1)
                      ELSE IF Len(outs.items) < Len(op.outputs)
                      THEN Outcome(NoValue, Raise("IndexError", "operator output"))
                      ELSE AloneOutputs(BindOutputs(map, op.outputs, outs, 1), k + 1)

RECURSIVE AloneInputs(_, _, _)
AloneInputs(ins, map, i) ==
    IF i > N THEN AloneOutputs(map, 1)
    ELSE IF i > Len(ins) THEN Outcome(NoValue, Raise("IndexError", "bind"))
    ELSE LET r == ConvertInput(ins[i])
         IN  IF r.ok THEN AloneInputs(ins, Put(map, _input_names[i], r.value), i + 1)
             ELSE Outcome(NoValue, r.error)

ForwardAlone(a) ==
    IF ArityAssert(a) # "pass"
    THEN Outcome(NoValue, [type |-> ArityAssert(a), where |-> "arity",
                           names |-> IF ArityAssert(a) = "AssertionError"
                                     THEN _input_names ELSE <<>>])
    ELSE IF IsDataFrameCall(a) = "IndexError"
    THEN Outcome(NoValue, Raise("IndexError", "split"))
    ELSE AloneInputs(IF IsDataFrameCall(a) = "yes" THEN SplitColumns(a[1]) ELSE a,
                     EmptyMap, 1)

\* call c took no step
Idle(c) == pc'[c] = pc[c] /\ idx'[c] = idx[c]

Finished(c) == pc[c] \in {"done", "failed"}

CallsAgree ==
    \A c \in Calls :
       Finished(c) => Outcome(result[c], error[c]) = ForwardAlone(args[c])

CallsApart ==
    /\ phase = "ready" => executor' = executor
    /\ \A c \in Calls :
          Idle(c) => /\ variable_map'[c] = variable_map[c]
                     /\ inputs'[c] = inputs[c]
                     /\ invoked'[c] = invoked[c]
                     /\ result'[c] = result[c]
                     /\ error'[c] = error[c]

\* C6: under any interleaving of forward calls on one executor, a call's
\* steps touch only that call's symbol table and never the executor's operator
\* sequence, resolved names or configuration, and every call ends as it ends
\* when run alone on its arguments (so equal arguments give equal outputs).
C6_CallsDoNotInterfere == [][CallsApart]_vars /\ []CallsAgree

\* two calls are in flight at once with different arguments, one has returned
C6_Witness ==
    /\ pc[1] = "done"
    /\ pc[2] = "run"
    /\ args[1] # args[2]
    /\ variable_map[1] # variable_map[2]
    /\ Len(_operators) = 2

----------------------------------------------------------------------------
(* Failures *)

Prefix(k) == [j \in 1..k |-> j]

\* what each failure leaves of the call: where it stopped and what had run
FailurePoint(c) ==
    CASE error[c].where \in {"arity", "split"} ->
            invoked[c] = <<>> /\ variable_map[c] = EmptyMap
      [] error[c].where = "bind" ->
            invoked[c] = <<>> /\ Len(inputs[c]) < N
      [] error[c].where = "input type" ->
            invoked[c] = <<>> /\ error[c].type = "RuntimeError"
      [] error[c].where = "max_string_length" ->
            invoked[c] = <<>> /\ max_string_length = 0
      [] error[c].where = "operator input" ->
            /\ invoked[c] = Prefix(idx[c] - 1)
            /\ \E p \in 1..Len(_operators[idx[c]].inputs) :
                  _operators[idx[c]].inputs[p] \notin DOMAIN variable_map[c]
      [] error[c].where = "operator output" ->
            /\ invoked[c] = Prefix(idx[c])
            /\ _operators[idx[c]].nret < Len(_operators[idx[c]].outputs)
      [] error[c].where = "output" ->
            /\ invoked[c] = Prefix(Len(_operators))
            /\ \E j \in 1..Len(_output_names) :
                  _output_names[j] \notin DOMAIN variable_map[c]
      [] OTHER -> FALSE

\* a returned value is whole: one bound value per resolved output name
Whole(c) ==
    /\ result[c] # NoValue
    /\ \A j \in 1..Len(_output_names) : _output_names[j] \in DOMAIN variable_map[c]
    /\ Len(_output_names) # 1 =>
          result[c].type = "tuple" /\ Len(result[c].items) = Len(_output_names)

\* none of the fatal conditions was met on the way to a returned value
NothingFatal(c) ==
    /\ Len(inputs[c]) >= N
    /\ \A i \in 1..N : ConvertInput(inputs[c][i]).ok
    /\ \A k \in 1..Len(_operators) :
          Len(_operators[k].outputs) # 1 => _operators[k].nret >= Len(_operators[k].outputs)
    /\ invoked[c] = Prefix(Len(_operators))

----------------------------------------------------------------------------
(* The arity check, the tabular container, datetime inputs *)

\* C1: every call whose number of positional inputs differs from the number
\* of resolved input names, the single-tabular-container exception apart,
\* fails with the arity-mismatch error naming the expected inputs: it binds no
\* prefix, ignores no extra input and fails with no other error.
C1_ArityLaw ==
    \A c \in Calls :
       (Started(c) /\ Len(args[c]) # N /\ ~SoleFrame(args[c])) =>
          pc[c] = "failed" /\ error[c] = ArityError

\* C2: a call whose first argument is a tabular container is accepted only
\* when the container is the sole argument and has as many columns as there
\* are resolved input names; any other such call fails with the precondition
\* failure naming the expected inputs, and drops no column or argument.
C2_TabularOnlyAsSoleArgument ==
    \A c \in Calls :
       (/\ Started(c)
        /\ Len(args[c]) >= 1
        /\ args[c][1].type = "dataframe"
        /\ ~SoleFrame(args[c])) =>
          pc[c] = "failed" /\ error[c] = ArityError

\* the single-column array that holds column p of a DataFrame
ColumnArray(df, p) ==
    NdArray(df.columns[p].dtype, "col", df.columns[p].id,
            df.columns[p].num, df.columns[p].den, 0)

\* the bindings forward seeds from the positional arrays `arrays`
RECURSIVE SeedOf(_, _, _)
SeedOf(arrays, map, i) ==
    IF i > N THEN map
    ELSE SeedOf(arrays, Put(map, _input_names[i], ConvertInput(arrays[i]).value), i + 1)

\* C3: for every N >= 1 a call with a single tabular container of exactly N
\* columns succeeds (the container is accepted) and seeds the symbol table
\* with the bindings (input name i to column i) of a call with the N
\* single-column arrays of those columns, ending as that call ends.
C3_TabularSplitting ==
    \A c \in Calls :
       (Started(c) /\ N >= 1 /\ SoleFrame(args[c])) =>
          LET arrays == [p \in 1..N |-> ColumnArray(args[c][1], p)]
          IN  /\ ~(pc[c] = "failed" /\ error[c].where \in {"arity", "split"})
              /\ Seeded(c) => variable_map[c] = SeedOf(arrays, EmptyMap, 1)
              /\ Finished(c) => Outcome(result[c], error[c]) = ForwardAlone(arrays)

\* input i of call c has been bound
Bound(c, i) ==
    \/ pc[c] = "bind" /\ i < idx[c]
    \/ Seeded(c)

====
